---- MODULE Spec2Model ----
(***************************************************************************)
(* PriceHound: the log-pricing wizard (product lookup, price parsing,      *)
(* derived quantities, cost aggregation, quote items) and the shared       *)
(* price-parsing helpers.                                                  *)
(*                                                                         *)
(* Strings are tuples of one-character strings.  A nullable value is a     *)
(* tuple of length 0 (null / undefined) or 1 (the value).  A JavaScript    *)
(* number is a record [k, n, d]: k = "fin" is the rational n/d in lowest   *)
(* terms with d > 0; k = "nan", "pinf", "ninf" are NaN and the infinities; *)
(* k = "null" is the null a cleared number field is bound to.  Arithmetic  *)
(* is exact on rationals (IEEE rounding is not represented), the special   *)
(* values follow IEEE-754 as JavaScript applies them.                      *)
(***************************************************************************)
EXTENDS Integers, Sequences, FiniteSets, TLC

(***************************************************************************)
(* Bounds of the model.                                                    *)
(***************************************************************************)
\* longest enumerated price text
MaxLen == 3
\* longest enumerated catalog
MaxCatalog == 2
\* number of track calls that can be in flight together
MaxCalls == 2

(***************************************************************************)
(* Nullable values.                                                        *)
(***************************************************************************)
None == <<>>

Some(x) == <<x>>

IsSome(o) == Len(o) > 0

Get(o) == o[1]

(***************************************************************************)
(* JavaScript numbers.                                                     *)
(***************************************************************************)
Abs(i) == IF i < 0 THEN -i ELSE i

Sign(i) == IF i < 0 THEN -1 ELSE IF i > 0 THEN 1 ELSE 0

RECURSIVE GCD(_, _)
GCD(a, b) == IF b = 0 THEN a ELSE GCD(b, a % b)

NaN == [k |-> "nan", n |-> 0, d |-> 1]

PInf == [k |-> "pinf", n |-> 1, d |-> 1]

NInf == [k |-> "ninf", n |-> -1, d |-> 1]

Null == [k |-> "null", n |-> 0, d |-> 1]

\* the rational n/d (d # 0) in lowest terms
Rat(n, d) ==
    LET g == GCD(Abs(n), Abs(d))
        s == IF d < 0 THEN -1 ELSE 1
    IN  [k |-> "fin", n |-> s * (n \div g), d |-> s * (d \div g)]

Num(i) == [k |-> "fin", n |-> i, d |-> 1]

Zero == Num(0)

\* ToNumber: null coerces to +0
ToNumber(v) == IF v.k = "null" THEN Zero ELSE v

IsFinite(v) == v.k = "fin"

\* sign of a number that is not NaN
SignOf(v) == IF v.k = "pinf" THEN 1 ELSE IF v.k = "ninf" THEN -1 ELSE Sign(v.n)

InfOfSign(s) == IF s > 0 THEN PInf ELSE NInf

\* a * b
Mul(x, y) ==
    LET a == ToNumber(x)
        b == ToNumber(y)
    IN  IF a.k = "nan" \/ b.k = "nan" THEN NaN
        ELSE IF a.k = "fin" /\ b.k = "fin" THEN
            LET g1 == GCD(Abs(a.n), b.d)
                g2 == GCD(Abs(b.n), a.d)
            IN  Rat((a.n \div g1) * (b.n \div g2), (a.d \div g2) * (b.d \div g1))
        ELSE IF SignOf(a) * SignOf(b) = 0 THEN NaN
        ELSE InfOfSign(SignOf(a) * SignOf(b))

\* a / b (a zero divisor is +0: no operation of the program produces -0 as a divisor)
Div(x, y) ==
    LET a == ToNumber(x)
        b == ToNumber(y)
    IN  IF a.k = "nan" \/ b.k = "nan" THEN NaN
        ELSE IF a.k = "fin" /\ b.k = "fin" THEN
            IF b.n = 0 THEN (IF a.n = 0 THEN NaN ELSE InfOfSign(Sign(a.n)))
            ELSE LET g1 == GCD(Abs(a.n), Abs(b.n))
                     g2 == GCD(a.d, b.d)
                 IN  Rat((a.n \div g1) * (b.d \div g2), (a.d \div g2) * (b.n \div g1))
        ELSE IF a.k # "fin" /\ b.k # "fin" THEN NaN
        ELSE IF a.k = "fin" THEN Zero
        ELSE IF SignOf(b) < 0 THEN InfOfSign(-SignOf(a)) ELSE InfOfSign(SignOf(a))

\* a + b
Add(x, y) ==
    LET a == ToNumber(x)
        b == ToNumber(y)
    IN  IF a.k = "nan" \/ b.k = "nan" THEN NaN
        ELSE IF a.k = "fin" /\ b.k = "fin" THEN
            LET g == GCD(a.d, b.d)
            IN  Rat(a.n * (b.d \div g) + b.n * (a.d \div g), a.d * (b.d \div g))
        ELSE IF a.k = "fin" THEN b
        ELSE IF b.k = "fin" THEN a
        ELSE IF a.k = b.k THEN a
        ELSE NaN

\* a > 0 (false for NaN and for null)
Gt0(x) == LET a == ToNumber(x) IN a.k # "nan" /\ SignOf(a) > 0

\* Math.ceil
Ceil(x) ==
    LET a == ToNumber(x)
    IN  IF a.k = "fin" THEN Num(-((-a.n) \div a.d)) ELSE a

\* truthiness of a number, as in  x || 0
Truthy(v) == ~(v.k \in {"nan", "null"}) /\ ~(v.k = "fin" /\ v.n = 0)

(***************************************************************************)
(* Strings.                                                                *)
(***************************************************************************)
UpperChars ==
    <<"A", "B", "C", "D", "E", "F", "G", "H", "I", "J", "K", "L", "M",
      "N", "O", "P", "Q", "R", "S", "T", "U", "V", "W", "X", "Y", "Z">>

LowerChars ==
    <<"a", "b", "c", "d", "e", "f", "g", "h", "i", "j", "k", "l", "m",
      "n", "o", "p", "q", "r", "s", "t", "u", "v", "w", "x", "y", "z">>

DigitChars == <<"0", "1", "2", "3", "4", "5", "6", "7", "8", "9">>

Digits == {DigitChars[i] : i \in 1..10}

DigitVal(c) == (CHOOSE i \in 1..10 : DigitChars[i] = c) - 1

UpperSet == {UpperChars[i] : i \in 1..26}

LowerOfUpper == [c \in UpperSet |-> LowerChars[CHOOSE i \in 1..26 : UpperChars[i] = c]]

LowerChar(c) == IF c \in UpperSet THEN LowerOfUpper[c] ELSE c

\* String.prototype.toLowerCase
ToLowerCase(s) == [i \in 1..Len(s) |-> LowerChar(s[i])]

\* String.prototype.includes
Includes(s, sub) ==
    \E i \in 1..(Len(s) - Len(sub) + 1) : SubSeq(s, i, i + Len(sub) - 1) = sub

\* decimal text of a positive integer, as a template literal renders it
RECURSIVE DecStr(_)
DecStr(i) == IF i < 10 THEN <<DigitChars[i + 1]>> ELSE DecStr(i \div 10) \o <<DigitChars[(i % 10) + 1]>>

RECURSIVE Pow10(_)
Pow10(e) == IF e = 0 THEN 1 ELSE 10 * Pow10(e - 1)

\* value of a run of decimal digits (0 for the empty run)
RECURSIVE DigitsVal(_)
DigitsVal(s) ==
    IF Len(s) = 0 THEN 0
    ELSE 10 * DigitsVal(SubSeq(s, 1, Len(s) - 1)) + DigitVal(s[Len(s)])

\* length of the longest prefix of s made of characters of cs
RECURSIVE PrefixLen(_, _)
PrefixLen(s, cs) ==
    IF Len(s) = 0 \/ s[1] \notin cs THEN 0 ELSE 1 + PrefixLen(Tail(s), cs)

\* parseFloat on a text of digits and dots: the longest prefix that is a
\* decimal literal (digits, digits '.', digits '.' digits, '.' digits), else NaN
ParseFloat(s) ==
    LET il   == PrefixLen(s, Digits)
        ip   == SubSeq(s, 1, il)
        rest == SubSeq(s, il + 1, Len(s))
        dot  == Len(rest) > 0 /\ rest[1] = "."
        fl   == IF dot THEN PrefixLen(Tail(rest), Digits) ELSE 0
        fp   == IF dot THEN SubSeq(rest, 2, fl + 1) ELSE <<>>
    IN  IF il = 0 /\ fl = 0 THEN NaN
        ELSE Rat(DigitsVal(ip) * Pow10(fl) + DigitsVal(fp), Pow10(fl))

DigitOrDot == Digits \cup {"."}

\* priceStr.match(/[\d.]+/): the first maximal run of digits and dots, or no match
MatchDigitDotRun(s) ==
    IF \E i \in 1..Len(s) : s[i] \in DigitOrDot
    THEN LET i == CHOOSE j \in 1..Len(s) :
                      s[j] \in DigitOrDot /\ \A h \in 1..(j - 1) : s[h] \notin DigitOrDot
             r == SubSeq(s, i, Len(s))
         IN  Some(SubSeq(r, 1, PrefixLen(r, DigitOrDot)))
    ELSE None

\* priceStr.replace(/[^\d.]/g, '')
KeepDigitsAndDots(s) == SelectSeq(s, LAMBDA c : c \in DigitOrDot)

(***************************************************************************)
(* The price parsers.  priceStr is nullable text.                          *)
(***************************************************************************)
\* the wizard's own parsePrice
parsePrice(priceStr) ==
    IF ~IsSome(priceStr) \/ Len(Get(priceStr)) = 0 THEN Zero
    ELSE LET match == MatchDigitDotRun(Get(priceStr))
         IN  IF IsSome(match) THEN ParseFloat(Get(match)) ELSE Zero

\* parsePrice of $lib/utils
utilsParsePrice(priceStr) ==
    IF ~IsSome(priceStr) \/ Get(priceStr) = <<"-">> \/ Len(Get(priceStr)) = 0 THEN Zero
    ELSE LET cleaned == KeepDigitsAndDots(Get(priceStr))
             v       == ParseFloat(cleaned)
         IN  IF Truthy(v) THEN v ELSE Zero

\* mutant: the '%' marker is not required
parsePercentage_NoMarker(priceStr) ==
    IF ~IsSome(priceStr) THEN Zero
    ELSE LET cleaned == KeepDigitsAndDots(Get(priceStr))
             v       == ParseFloat(cleaned)
         IN  IF Truthy(v) THEN v ELSE Zero

\* parsePercentage of $lib/utils
parsePercentage(priceStr) ==
    IF ~IsSome(priceStr) \/ Len(Get(priceStr)) = 0 \/ ~Includes(Get(priceStr), <<"%">>)
    THEN Zero
    ELSE LET cleaned == KeepDigitsAndDots(Get(priceStr))
             v       == ParseFloat(cleaned)
         IN  IF Truthy(v) THEN v ELSE Zero

(***************************************************************************)
(* String literals of the wizard's product lookups.                        *)
(***************************************************************************)
LIT_logs ==
    <<"l", "o", "g", "s">>

LIT_ingestion ==
    <<"i", "n", "g", "e", "s", "t", "i", "o", "n">>

LIT_indexed_log_events ==
    <<"i", "n", "d", "e", "x", "e", "d", " ", "l", "o", "g", " ", "e", "v", "e", "n", "t", "s">>

LIT_day ==
    <<"-", "d", "a", "y">>

LIT_FlexLogsStarter ==
    <<"F", "l", "e", "x", " ", "L", "o", "g", "s", " ", "S", "t", "a", "r", "t", "e", "r">>

LIT_FlexLogsStorage ==
    <<"F", "l", "e", "x", " ", "L", "o", "g", "s", " ", "S", "t", "o", "r", "a", "g", "e">>

LIT_Forwarding ==
    <<"L", "o", "g", "s", " ", "-", " ", "F", "o", "r", "w", "a", "r", "d", "i", "n", "g", " ", "t", "o", " ", "C", "u", "s", "t", "o", "m", " ", "D", "e", "s", "t", "i", "n", "a", "t", "i", "o", "n", "s">>

(***************************************************************************)
(* Product records: the fields of Product the wizard reads.                *)
(***************************************************************************)
Product(name, unit, price) == [product |-> name, billing_unit |-> unit, billed_annually |-> price]

\* names, billing units and price texts of the catalogs the model draws from
N_LogsIngestion ==
    <<"L", "o", "g", "s", " ", "-", " ", "I", "n", "g", "e", "s", "t", "i", "o", "n">>

N_LOGS_INGESTION ==
    <<"L", "O", "G", "S", " ", "I", "N", "G", "E", "S", "T", "I", "O", "N">>

N_Ingestion ==
    <<"I", "n", "g", "e", "s", "t", "i", "o", "n">>

N_IndexedLogEvents ==
    <<"I", "n", "d", "e", "x", "e", "d", " ", "L", "o", "g", " ", "E", "v", "e", "n", "t", "s">>

N_LogsIngestionIndexed ==
    <<"L", "o", "g", "s", " ", "I", "n", "g", "e", "s", "t", "i", "o", "n", " ", "I", "n", "d", "e", "x", "e", "d", " ", "L", "o", "g", " ", "E", "v", "e", "n", "t", "s">>

N_flexlogsstarter ==
    <<"f", "l", "e", "x", " ", "l", "o", "g", "s", " ", "s", "t", "a", "r", "t", "e", "r">>

U_perGB ==
    <<"p", "e", "r", " ", "G", "B">>

U_per1M ==
    <<"p", "e", "r", " ", "1", "M">>

U_3day ==
    <<"3", "-", "d", "a", "y">>

U_7day ==
    <<"7", "-", "d", "a", "y">>

U_15day ==
    <<"1", "5", "-", "d", "a", "y">>

U_30Day ==
    <<"3", "0", "-", "D", "a", "y">>

T_010 ==
    <<"$", "0", ".", "1", "0">>

T_106 ==
    <<"$", "1", ".", "0", "6">>

T_127 ==
    <<"$", "1", ".", "2", "7">>

T_170 ==
    <<"$", "1", ".", "7", "0">>

T_250 ==
    <<"$", "2", ".", "5", "0">>

T_060 ==
    <<"$", "0", ".", "6", "0">>

T_005 ==
    <<"$", "0", ".", "0", "5">>

T_025 ==
    <<"$", "0", ".", "2", "5">>

T_contact ==
    <<"C", "o", "n", "t", "a", "c", "t", " ", "u", "s", ".">>

T_1700 ==
    <<"$", "1", ",", "7", "0", "0", ".", "0", "0">>

T_suffix ==
    <<"$", "1", ".", "7", "0", " ", "p", "e", "r", " ", "1", "M", " ", "e", "v", "e", "n", "t", "s">>

T_15pct ==
    <<"1", "5", "%">>

T_15 ==
    <<"1", "5">>

T_dash ==
    <<"-">>

(***************************************************************************)
(* Catalogs.                                                               *)
(***************************************************************************)
P_ing == Product(N_LogsIngestion, U_perGB, Some(T_010))

P_ingUpper == Product(N_LOGS_INGESTION, U_perGB, None)

P_ingOnly == Product(N_Ingestion, U_perGB, Some(T_010))

P_idx3 == Product(N_IndexedLogEvents, U_3day, Some(T_106))

P_idx7 == Product(N_IndexedLogEvents, U_7day, Some(T_127))

P_idx15 == Product(N_IndexedLogEvents, U_15day, Some(T_170))

P_idx30 == Product(N_IndexedLogEvents, U_30Day, Some(T_250))

P_both15 == Product(N_LogsIngestionIndexed, U_15day, Some(T_dash))

P_starter == Product(LIT_FlexLogsStarter, U_per1M, Some(T_060))

P_starterContact == Product(LIT_FlexLogsStarter, U_per1M, Some(T_contact))

P_starterLower == Product(N_flexlogsstarter, U_per1M, Some(T_060))

P_storage == Product(LIT_FlexLogsStorage, U_per1M, Some(T_005))

P_fwd == Product(LIT_Forwarding, U_perGB, Some(T_025))

\* the catalogs the parent page hands to the wizard
CatFull == <<P_ing, P_idx3, P_idx7, P_idx15, P_starter, P_storage, P_fwd>>

CatOdd == <<P_ingUpper, P_idx30, P_both15, P_starterContact, P_starter, P_fwd>>

\* a catalog whose first record satisfies the ingestion and the indexed predicates
CatShared == <<P_both15, P_starter, P_storage, P_fwd>>

Catalogs == {CatFull, CatOdd}

\* the records the exhaustive catalogs are built from
ProductPool ==
    {P_ing, P_ingUpper, P_ingOnly, P_idx15, P_idx30, P_both15,
     P_starter, P_starterContact, P_starterLower, P_storage, P_fwd}

SeqsUpTo(S, n) == UNION {[1..m -> S] : m \in 0..n}

AllCatalogs == SeqsUpTo(ProductPool, MaxCatalog)

(***************************************************************************)
(* Product lookups: products.find(predicate).                              *)
(***************************************************************************)
\* Array.prototype.find, given the indices whose element satisfies the
\* predicate: the element at the least of them, else undefined
Find(arr, hits) ==
    IF hits = {} THEN None ELSE Some(arr[CHOOSE i \in hits : \A j \in hits : i <= j])

IsIngestion(p) ==
    /\ Includes(ToLowerCase(p.product), LIT_logs)
    /\ Includes(ToLowerCase(p.product), LIT_ingestion)

IsIndexed(p, days) ==
    /\ Includes(ToLowerCase(p.product), LIT_indexed_log_events)
    /\ Includes(ToLowerCase(p.billing_unit), DecStr(days) \o LIT_day)

\* mutant: the last matching record instead of the first
FindIngestionProduct_Last(ps) ==
    IF \E i \in 1..Len(ps) : IsIngestion(ps[i])
    THEN Some(ps[CHOOSE i \in 1..Len(ps) :
                     IsIngestion(ps[i]) /\ \A j \in (i + 1)..Len(ps) : ~IsIngestion(ps[j])])
    ELSE None

FindIngestionProduct(ps) == Find(ps, {i \in 1..Len(ps) : IsIngestion(ps[i])})

FindIndexedProduct(ps, days) == Find(ps, {i \in 1..Len(ps) : IsIndexed(ps[i], days)})

FindFlexStarterProduct(ps) ==
    Find(ps, {i \in 1..Len(ps) : ps[i].product = LIT_FlexLogsStarter})

FindFlexStorageProduct(ps) ==
    Find(ps, {i \in 1..Len(ps) : ps[i].product = LIT_FlexLogsStorage})

FindForwardingProduct(ps) ==
    Find(ps, {i \in 1..Len(ps) : ps[i].product = LIT_Forwarding})

\* product?.billed_annually
BilledAnnually(prod) == IF IsSome(prod) THEN Get(prod).billed_annually ELSE None

(***************************************************************************)
(* State of the wizard component.                                          *)
(***************************************************************************)
VARIABLES
    \* props
    products,
    \* wizard state and user inputs
    currentStep, ingestedLogsGB, avgLogSizeKB, indexingPercentage, retentionDays,
    enableFlexStarter, enableFlexStorage, enableForwarding,
    flexStarterEvents, flexStorageEvents, forwardingGB,
    \* reactive declarations
    totalLogsPerMonth, indexedLogsCount, indexedLogsInMillions,
    ingestionProduct, indexedProduct, flexStarterProduct, flexStorageProduct,
    forwardingProduct,
    ingestionPrice, indexedPrice, flexStarterPrice, flexStoragePrice, forwardingPrice,
    ingestionCost, indexedCost, flexStarterCost, flexStorageCost, forwardingCost,
    additionalCost, totalMonthlyCost,
    \* the calls of onAddToQuote made by the last step, each its argument
    emitted,
    \* whether the last step ran addToQuote
    finalized,
    \* the last call of a price parser: which one, its argument, its result
    parser, priceStr, parsed,
    \* the RUM tracking module: the environment flag, the cached module, and
    \* per track call its position, its action name, the outcome of its
    \* import, what getRum resolved to, and how the call ended
    browser, rumInstance, pc, actionName, importResult, rum, outcome

inputVars ==
    <<currentStep, ingestedLogsGB, avgLogSizeKB, indexingPercentage, retentionDays,
      enableFlexStarter, enableFlexStorage, enableForwarding,
      flexStarterEvents, flexStorageEvents, forwardingGB>>

derivedVars ==
    <<totalLogsPerMonth, indexedLogsCount, indexedLogsInMillions,
      ingestionProduct, indexedProduct, flexStarterProduct, flexStorageProduct,
      forwardingProduct,
      ingestionPrice, indexedPrice, flexStarterPrice, flexStoragePrice, forwardingPrice,
      ingestionCost, indexedCost, flexStarterCost, flexStorageCost, forwardingCost,
      additionalCost, totalMonthlyCost>>

parseVars == <<parser, priceStr, parsed>>

rumVars == <<browser, rumInstance, pc, actionName, importResult, rum, outcome>>

wizardVars == <<products, inputVars, derivedVars, emitted, finalized>>

vars == <<wizardVars, parseVars, rumVars>>

\* the steps of the wizard, by index
Steps == 0..3

LastStep == 3

\* useCasePresets[*].percentage
PresetPercentages == {5, 15, 30, 100}

\* retentionOptions[*].days
RetentionOptions == {3, 7, 15, 30}

\* values typed into the number fields (Null: the field is cleared)
IngestedLogsGBInputs == {Num(100), Num(-1)}

AvgLogSizeKBInputs == {Num(2), Zero}

FlexStarterEventsInputs == {Num(10), Rat(5, 2)}

FlexStorageEventsInputs == {Num(50), Zero}

ForwardingGBInputs == {Num(20), Null}

\* positions of the range slider (min 1, max 100)
SliderPositions == {1}

(***************************************************************************)
(* The reactive declarations.                                              *)
(***************************************************************************)
TotalLogsPerMonth(gb, kb) == Div(Mul(Mul(gb, Num(1024)), Num(1024)), kb)

\* mutant: the count of indexed entries is rounded up to a whole entry
IndexedLogsCount_Rounded(total, pct) == Ceil(Mul(total, Div(Num(pct), Num(100))))

IndexedLogsCount(total, pct) == Mul(total, Div(Num(pct), Num(100)))

IndexedLogsInMillions(count) == Div(count, Num(1000000))

\* quantity * price of a mandatory category
CategoryCost(quantity, price) == Mul(quantity, price)

\* mutant: the enable flag is not consulted
AddOnCost_IgnoresFlag(enable, count, price) == Mul(count, price)

\* enable ? count * price : 0
AddOnCost(enable, count, price) == IF enable THEN Mul(count, price) ELSE Zero

AdditionalCost(starterC, storageC, fwdC) == Add(Add(starterC, storageC), fwdC)

TotalMonthlyCost(ingC, idxC, addC) == Add(Add(ingC, idxC), addC)

\* the reactive declarations in their order, each reading the inputs and the
\* values declared before it; the component's constructor runs them once
InitDerived ==
    /\ totalLogsPerMonth = TotalLogsPerMonth(ingestedLogsGB, avgLogSizeKB)
    /\ indexedLogsCount = IndexedLogsCount(totalLogsPerMonth, indexingPercentage)
    /\ indexedLogsInMillions = IndexedLogsInMillions(indexedLogsCount)
    /\ ingestionProduct = FindIngestionProduct(products)
    /\ indexedProduct = FindIndexedProduct(products, retentionDays)
    /\ flexStarterProduct = FindFlexStarterProduct(products)
    /\ flexStorageProduct = FindFlexStorageProduct(products)
    /\ forwardingProduct = FindForwardingProduct(products)
    /\ ingestionPrice = parsePrice(BilledAnnually(ingestionProduct))
    /\ indexedPrice = parsePrice(BilledAnnually(indexedProduct))
    /\ flexStarterPrice = parsePrice(BilledAnnually(flexStarterProduct))
    /\ flexStoragePrice = parsePrice(BilledAnnually(flexStorageProduct))
    /\ forwardingPrice = parsePrice(BilledAnnually(forwardingProduct))
    /\ ingestionCost = CategoryCost(ingestedLogsGB, ingestionPrice)
    /\ indexedCost = CategoryCost(indexedLogsInMillions, indexedPrice)
    /\ flexStarterCost = AddOnCost(enableFlexStarter, flexStarterEvents, flexStarterPrice)
    /\ flexStorageCost = AddOnCost(enableFlexStorage, flexStorageEvents, flexStoragePrice)
    /\ forwardingCost = AddOnCost(enableForwarding, forwardingGB, forwardingPrice)
    /\ additionalCost = AdditionalCost(flexStarterCost, flexStorageCost, forwardingCost)
    /\ totalMonthlyCost = TotalMonthlyCost(ingestionCost, indexedCost, additionalCost)

\* the component's initial state: the declared defaults
InitWizard(catalogs) ==
    /\ products \in catalogs
    /\ currentStep = 0
    /\ ingestedLogsGB = Num(100)
    /\ avgLogSizeKB = Num(2)
    /\ indexingPercentage = 15
    /\ retentionDays = 15
    /\ enableFlexStarter = FALSE
    /\ enableFlexStorage = FALSE
    /\ enableForwarding = FALSE
    /\ flexStarterEvents = Num(10)
    /\ flexStorageEvents = Num(50)
    /\ forwardingGB = Num(20)
    /\ InitDerived
    /\ emitted = <<>>
    /\ finalized = FALSE

NoParse ==
    /\ parser = "none"
    /\ priceStr = None
    /\ parsed = Zero

\* the track calls
Calls == 1..MaxCalls

\* the export of '@datadog/browser-rum'
DatadogRum == "datadogRum"

\* the tracking module as loaded: nothing imported yet, no call made
InitRumModule ==
    /\ rumInstance = None
    /\ pc = [c \in Calls |-> "idle"]
    /\ actionName = [c \in Calls |-> "none"]
    /\ importResult = [c \in Calls |-> "none"]
    /\ rum = [c \in Calls |-> None]
    /\ outcome = [c \in Calls |-> "none"]

\* the tracking module loaded in the browser, unused
NoRum ==
    /\ browser = TRUE
    /\ InitRumModule

\* An assignment to a prop or an input invalidates it and schedules a flush,
\* which runs before the next event is handled and before anything is
\* rendered.  The flush reruns, in their order, the reactive declarations that
\* read something invalidated, on the values the handler left; the others
\* keep their values.

\* the declarations reading ingestedLogsGB, avgLogSizeKB, indexingPercentage
RerunQuantities ==
    /\ totalLogsPerMonth' = TotalLogsPerMonth(ingestedLogsGB', avgLogSizeKB')
    /\ indexedLogsCount' = IndexedLogsCount(totalLogsPerMonth', indexingPercentage')
    /\ indexedLogsInMillions' = IndexedLogsInMillions(indexedLogsCount')

KeepQuantities == UNCHANGED <<totalLogsPerMonth, indexedLogsCount, indexedLogsInMillions>>

\* the declarations reading products alone, and the prices read off them
RerunLookups ==
    /\ ingestionProduct' = FindIngestionProduct(products')
    /\ flexStarterProduct' = FindFlexStarterProduct(products')
    /\ flexStorageProduct' = FindFlexStorageProduct(products')
    /\ forwardingProduct' = FindForwardingProduct(products')
    /\ ingestionPrice' = parsePrice(BilledAnnually(ingestionProduct'))
    /\ flexStarterPrice' = parsePrice(BilledAnnually(flexStarterProduct'))
    /\ flexStoragePrice' = parsePrice(BilledAnnually(flexStorageProduct'))
    /\ forwardingPrice' = parsePrice(BilledAnnually(forwardingProduct'))

KeepLookups ==
    UNCHANGED <<ingestionProduct, flexStarterProduct, flexStorageProduct, forwardingProduct,
                ingestionPrice, flexStarterPrice, flexStoragePrice, forwardingPrice>>

\* the declaration reading products and retentionDays, and its price
RerunIndexed ==
    /\ indexedProduct' = FindIndexedProduct(products', retentionDays')
    /\ indexedPrice' = parsePrice(BilledAnnually(indexedProduct'))

KeepIndexed == UNCHANGED <<indexedProduct, indexedPrice>>

\* the cost declarations
RerunCosts ==
    /\ ingestionCost' = CategoryCost(ingestedLogsGB', ingestionPrice')
    /\ indexedCost' = CategoryCost(indexedLogsInMillions', indexedPrice')
    /\ flexStarterCost' = AddOnCost(enableFlexStarter', flexStarterEvents', flexStarterPrice')
    /\ flexStorageCost' = AddOnCost(enableFlexStorage', flexStorageEvents', flexStoragePrice')
    /\ forwardingCost' = AddOnCost(enableForwarding', forwardingGB', forwardingPrice')
    /\ additionalCost' = AdditionalCost(flexStarterCost', flexStorageCost', forwardingCost')
    /\ totalMonthlyCost' = TotalMonthlyCost(ingestionCost', indexedCost', additionalCost')

\* products was assigned
InvalidateProducts ==
    /\ emitted' = <<>>
    /\ finalized' = FALSE
    /\ UNCHANGED <<parseVars, rumVars>>
    /\ KeepQuantities /\ RerunLookups /\ RerunIndexed /\ RerunCosts

\* mutant: the cost declarations are not rerun after the indexed lookup
InvalidateRetention_StaleCosts ==
    /\ emitted' = <<>>
    /\ finalized' = FALSE
    /\ UNCHANGED <<parseVars, rumVars>>
    /\ KeepQuantities /\ KeepLookups /\ RerunIndexed
    /\ UNCHANGED <<ingestionCost, indexedCost, flexStarterCost, flexStorageCost,
                   forwardingCost, additionalCost, totalMonthlyCost>>

\* retentionDays was assigned
InvalidateRetention ==
    /\ emitted' = <<>>
    /\ finalized' = FALSE
    /\ UNCHANGED <<parseVars, rumVars>>
    /\ KeepQuantities /\ KeepLookups /\ RerunIndexed /\ RerunCosts

\* ingestedLogsGB, avgLogSizeKB or indexingPercentage was assigned
InvalidateVolume ==
    /\ emitted' = <<>>
    /\ finalized' = FALSE
    /\ UNCHANGED <<parseVars, rumVars>>
    /\ RerunQuantities /\ KeepLookups /\ KeepIndexed /\ RerunCosts

\* an add-on's flag or usage count was assigned
InvalidateAddOn ==
    /\ emitted' = <<>>
    /\ finalized' = FALSE
    /\ UNCHANGED <<parseVars, rumVars>>
    /\ KeepQuantities /\ KeepLookups /\ KeepIndexed /\ RerunCosts

\* currentStep was assigned: no reactive declaration reads it
Navigate ==
    /\ emitted' = <<>>
    /\ finalized' = FALSE
    /\ UNCHANGED <<derivedVars, parseVars, rumVars>>

(***************************************************************************)
(* Event handlers.                                                         *)
(***************************************************************************)
\* the parent page passes another catalog
SetProducts(catalogs) ==
    /\ \E c \in catalogs : c # products /\ products' = c
    /\ UNCHANGED inputVars
    /\ InvalidateProducts

nextStep ==
    /\ currentStep < LastStep
    /\ currentStep' = currentStep + 1
    /\ UNCHANGED <<products, ingestedLogsGB, avgLogSizeKB, indexingPercentage,
                   retentionDays, enableFlexStarter, enableFlexStorage,
                   enableForwarding, flexStarterEvents, flexStorageEvents, forwardingGB>>
    /\ Navigate

prevStep ==
    /\ currentStep > 0
    /\ currentStep' = currentStep - 1
    /\ UNCHANGED <<products, ingestedLogsGB, avgLogSizeKB, indexingPercentage,
                   retentionDays, enableFlexStarter, enableFlexStorage,
                   enableForwarding, flexStarterEvents, flexStorageEvents, forwardingGB>>
    /\ Navigate

goToStep ==
    /\ \E index \in Steps : index # currentStep /\ currentStep' = index
    /\ UNCHANGED <<products, ingestedLogsGB, avgLogSizeKB, indexingPercentage,
                   retentionDays, enableFlexStarter, enableFlexStorage,
                   enableForwarding, flexStarterEvents, flexStorageEvents, forwardingGB>>
    /\ Navigate

\* step 0: the two number fields
SetIngestedLogsGBTo(values) ==
    /\ currentStep = 0
    /\ \E v \in values : v # ingestedLogsGB /\ ingestedLogsGB' = v
    /\ UNCHANGED <<products, currentStep, avgLogSizeKB, indexingPercentage,
                   retentionDays, enableFlexStarter, enableFlexStorage,
                   enableForwarding, flexStarterEvents, flexStorageEvents, forwardingGB>>
    /\ InvalidateVolume

SetIngestedLogsGB == SetIngestedLogsGBTo(IngestedLogsGBInputs)

SetAvgLogSizeKB ==
    /\ currentStep = 0
    /\ \E v \in AvgLogSizeKBInputs : v # avgLogSizeKB /\ avgLogSizeKB' = v
    /\ UNCHANGED <<products, currentStep, ingestedLogsGB, indexingPercentage,
                   retentionDays, enableFlexStarter, enableFlexStorage,
                   enableForwarding, flexStarterEvents, flexStorageEvents, forwardingGB>>
    /\ InvalidateVolume

\* step 1: a retention option is clicked
SelectRetention ==
    /\ currentStep = 1
    /\ \E days \in RetentionOptions : days # retentionDays /\ retentionDays' = days
    /\ UNCHANGED <<products, currentStep, ingestedLogsGB, avgLogSizeKB,
                   indexingPercentage, enableFlexStarter, enableFlexStorage,
                   enableForwarding, flexStarterEvents, flexStorageEvents, forwardingGB>>
    /\ InvalidateRetention

\* step 2: a preset is clicked
SelectPreset ==
    /\ currentStep = 2
    /\ \E pct \in PresetPercentages : pct # indexingPercentage /\ indexingPercentage' = pct
    /\ UNCHANGED <<products, currentStep, ingestedLogsGB, avgLogSizeKB,
                   retentionDays, enableFlexStarter, enableFlexStorage,
                   enableForwarding, flexStarterEvents, flexStorageEvents, forwardingGB>>
    /\ InvalidateVolume

\* step 2: the range slider is moved to one of the positions
SlideIndexingPercentageTo(positions) ==
    /\ currentStep = 2
    /\ \E pct \in positions : pct # indexingPercentage /\ indexingPercentage' = pct
    /\ UNCHANGED <<products, currentStep, ingestedLogsGB, avgLogSizeKB,
                   retentionDays, enableFlexStarter, enableFlexStorage,
                   enableForwarding, flexStarterEvents, flexStorageEvents, forwardingGB>>
    /\ InvalidateVolume

SlideIndexingPercentage == SlideIndexingPercentageTo(SliderPositions)

\* mutant: switching the add-on off also clears its usage count
ToggleFlexStarter_ClearsCount ==
    /\ currentStep = 3
    /\ enableFlexStarter' = ~enableFlexStarter
    /\ flexStarterEvents' = (IF enableFlexStarter THEN Zero ELSE flexStarterEvents)
    /\ UNCHANGED <<products, currentStep, ingestedLogsGB, avgLogSizeKB,
                   indexingPercentage, retentionDays, enableFlexStorage,
                   enableForwarding, flexStorageEvents, forwardingGB>>
    /\ InvalidateAddOn

\* step 3: the add-on checkboxes
ToggleFlexStarter ==
    /\ currentStep = 3
    /\ enableFlexStarter' = ~enableFlexStarter
    /\ UNCHANGED <<products, currentStep, ingestedLogsGB, avgLogSizeKB,
                   indexingPercentage, retentionDays, enableFlexStorage,
                   enableForwarding, flexStarterEvents, flexStorageEvents, forwardingGB>>
    /\ InvalidateAddOn

ToggleFlexStorage ==
    /\ currentStep = 3
    /\ enableFlexStorage' = ~enableFlexStorage
    /\ UNCHANGED <<products, currentStep, ingestedLogsGB, avgLogSizeKB,
                   indexingPercentage, retentionDays, enableFlexStarter,
                   enableForwarding, flexStarterEvents, flexStorageEvents, forwardingGB>>
    /\ InvalidateAddOn

ToggleForwarding ==
    /\ currentStep = 3
    /\ enableForwarding' = ~enableForwarding
    /\ UNCHANGED <<products, currentStep, ingestedLogsGB, avgLogSizeKB,
                   indexingPercentage, retentionDays, enableFlexStarter,
                   enableFlexStorage, flexStarterEvents, flexStorageEvents, forwardingGB>>
    /\ InvalidateAddOn

\* step 3: the usage field of an add-on, rendered while the add-on is enabled
SetFlexStarterEvents ==
    /\ currentStep = 3
    /\ enableFlexStarter
    /\ \E v \in FlexStarterEventsInputs : v # flexStarterEvents /\ flexStarterEvents' = v
    /\ UNCHANGED <<products, currentStep, ingestedLogsGB, avgLogSizeKB,
                   indexingPercentage, retentionDays, enableFlexStarter,
                   enableFlexStorage, enableForwarding, flexStorageEvents, forwardingGB>>
    /\ InvalidateAddOn

SetFlexStorageEvents ==
    /\ currentStep = 3
    /\ enableFlexStorage
    /\ \E v \in FlexStorageEventsInputs : v # flexStorageEvents /\ flexStorageEvents' = v
    /\ UNCHANGED <<products, currentStep, ingestedLogsGB, avgLogSizeKB,
                   indexingPercentage, retentionDays, enableFlexStarter,
                   enableFlexStorage, enableForwarding, flexStarterEvents, forwardingGB>>
    /\ InvalidateAddOn

SetForwardingGB ==
    /\ currentStep = 3
    /\ enableForwarding
    /\ \E v \in ForwardingGBInputs : v # forwardingGB /\ forwardingGB' = v
    /\ UNCHANGED <<products, currentStep, ingestedLogsGB, avgLogSizeKB,
                   indexingPercentage, retentionDays, enableFlexStarter,
                   enableFlexStorage, enableForwarding, flexStarterEvents, flexStorageEvents>>
    /\ InvalidateAddOn

\* a quote item
QuoteItem(prod, qty) == [product |-> Get(prod), quantity |-> Ceil(qty)]

\* if (cond) items.push(item)
PushIf(items, cond, prod, qty) == IF cond THEN Append(items, QuoteItem(prod, qty)) ELSE items

\* mutant: the add-on items are pushed without consulting the enable flags
BuildItems_IgnoresFlags ==
    LET i1 == PushIf(<<>>, IsSome(ingestionProduct) /\ Gt0(ingestedLogsGB),
                     ingestionProduct, ingestedLogsGB)
        i2 == PushIf(i1, IsSome(indexedProduct) /\ Gt0(indexedLogsInMillions),
                     indexedProduct, indexedLogsInMillions)
        i3 == PushIf(i2, IsSome(flexStarterProduct) /\ Gt0(flexStarterEvents),
                     flexStarterProduct, flexStarterEvents)
        i4 == PushIf(i3, IsSome(flexStorageProduct) /\ Gt0(flexStorageEvents),
                     flexStorageProduct, flexStorageEvents)
        i5 == PushIf(i4, IsSome(forwardingProduct) /\ Gt0(forwardingGB),
                     forwardingProduct, forwardingGB)
    IN  i5

\* mutant: an item is skipped when its product is already in the list
BuildItems_Dedup ==
    LET i1 == PushIf(<<>>, IsSome(ingestionProduct) /\ Gt0(ingestedLogsGB),
                     ingestionProduct, ingestedLogsGB)
        i2 == PushIf(i1, /\ IsSome(indexedProduct) /\ Gt0(indexedLogsInMillions)
                         /\ \A k \in 1..Len(i1) : Some(i1[k].product) # indexedProduct,
                     indexedProduct, indexedLogsInMillions)
        i3 == PushIf(i2, enableFlexStarter /\ IsSome(flexStarterProduct) /\ Gt0(flexStarterEvents),
                     flexStarterProduct, flexStarterEvents)
        i4 == PushIf(i3, enableFlexStorage /\ IsSome(flexStorageProduct) /\ Gt0(flexStorageEvents),
                     flexStorageProduct, flexStorageEvents)
        i5 == PushIf(i4, enableForwarding /\ IsSome(forwardingProduct) /\ Gt0(forwardingGB),
                     forwardingProduct, forwardingGB)
    IN  i5

\* the items addToQuote builds from the component's state
BuildItems ==
    LET i1 == PushIf(<<>>, IsSome(ingestionProduct) /\ Gt0(ingestedLogsGB),
                     ingestionProduct, ingestedLogsGB)
        i2 == PushIf(i1, IsSome(indexedProduct) /\ Gt0(indexedLogsInMillions),
                     indexedProduct, indexedLogsInMillions)
        i3 == PushIf(i2, enableFlexStarter /\ IsSome(flexStarterProduct) /\ Gt0(flexStarterEvents),
                     flexStarterProduct, flexStarterEvents)
        i4 == PushIf(i3, enableFlexStorage /\ IsSome(flexStorageProduct) /\ Gt0(flexStorageEvents),
                     flexStorageProduct, flexStorageEvents)
        i5 == PushIf(i4, enableForwarding /\ IsSome(forwardingProduct) /\ Gt0(forwardingGB),
                     forwardingProduct, forwardingGB)
    IN  i5

\* mutant: the callback is invoked without the test of items.length
addToQuote_AlwaysCalls ==
    /\ currentStep = LastStep
    /\ IsSome(ingestionProduct) /\ IsSome(indexedProduct)
    /\ emitted' = <<BuildItems>>
    /\ finalized' = TRUE
    /\ UNCHANGED <<products, inputVars, derivedVars, parseVars, rumVars>>

\* the "Add to Quote" button: rendered on the last step, disabled while the
\* ingestion or the indexed product is missing
addToQuote ==
    /\ currentStep = LastStep
    /\ IsSome(ingestionProduct) /\ IsSome(indexedProduct)
    /\ emitted' = (IF Len(BuildItems) > 0 THEN <<BuildItems>> ELSE <<>>)
    /\ finalized' = TRUE
    /\ UNCHANGED <<products, inputVars, derivedVars, parseVars, rumVars>>

(***************************************************************************)
(* What the cost summary renders from the component's state.               *)
(***************************************************************************)
\* totalMonthlyCost * 12
Annualized == Mul(totalMonthlyCost, Num(12))

IngestionProductFound == IsSome(ingestionProduct)

IndexedProductFound == IsSome(indexedProduct)

\* mutant: an enabled add-on without a matched product also raises the warning
ShowWarning_AddOns ==
    \/ ~IngestionProductFound \/ ~IndexedProductFound
    \/ enableFlexStarter /\ ~IsSome(flexStarterProduct)
    \/ enableFlexStorage /\ ~IsSome(flexStorageProduct)
    \/ enableForwarding /\ ~IsSome(forwardingProduct)

\* {#if !ingestionProduct || !indexedProduct}
ShowWarning == ~IngestionProductFound \/ ~IndexedProductFound

(***************************************************************************)
(* The wizard.                                                             *)
(***************************************************************************)
Init == InitWizard({CatFull}) /\ NoParse /\ NoRum

Next ==
    \/ SetProducts(Catalogs)
    \/ nextStep
    \/ prevStep
    \/ goToStep
    \/ SetIngestedLogsGB
    \/ SetAvgLogSizeKB
    \/ SelectRetention
    \/ SelectPreset
    \/ SlideIndexingPercentage
    \/ ToggleFlexStarter
    \/ ToggleFlexStorage
    \/ ToggleForwarding
    \/ SetFlexStarterEvents
    \/ SetFlexStorageEvents
    \/ SetForwardingGB
    \/ addToQuote

Spec == Init /\ [][Next]_vars

(***************************************************************************)
(* The product lookups over every catalog of up to MaxCatalog records of   *)
(* ProductPool, under every retention window.                              *)
(***************************************************************************)
InitMatch == InitWizard(AllCatalogs) /\ NoParse /\ NoRum

NextMatch ==
    \/ goToStep
    \/ SelectRetention

SpecMatch == InitMatch /\ [][NextMatch]_vars

(***************************************************************************)
(* The price parsers over every text of up to MaxLen characters of         *)
(* PriceChars, and over the sample texts.                                  *)
(***************************************************************************)
PriceChars == {"$", "1", "0", ".", ",", "-", "x", "%"}

SampleTexts == {T_170, T_1700, T_suffix, T_contact, T_dash, T_15pct, T_15, T_010}

\* null, and the texts
PriceTexts == {None} \cup {Some(t) : t \in SeqsUpTo(PriceChars, MaxLen) \cup SampleTexts}

\* the wizard's parsePrice is called on the text
CallParsePrice ==
    /\ parsed' = parsePrice(priceStr)
    /\ parser' = "wizard"
    /\ UNCHANGED <<wizardVars, priceStr, rumVars>>

\* parsePrice of $lib/utils is called on the text
CallUtilsParsePrice ==
    /\ parsed' = utilsParsePrice(priceStr)
    /\ parser' = "utils"
    /\ UNCHANGED <<wizardVars, priceStr, rumVars>>

\* parsePercentage of $lib/utils is called on the text
CallParsePercentage ==
    /\ parsed' = parsePercentage(priceStr)
    /\ parser' = "percentage"
    /\ UNCHANGED <<wizardVars, priceStr, rumVars>>

InitParse ==
    /\ InitWizard({CatFull})
    /\ parser = "none"
    /\ priceStr \in PriceTexts
    /\ parsed = Zero
    /\ NoRum

NextParse ==
    \/ CallParsePrice
    \/ CallUtilsParsePrice
    \/ CallParsePercentage

SpecParse == InitParse /\ [][NextParse]_vars

(***************************************************************************)
(* The derived quantities over positive volumes and entry sizes and every  *)
(* position of the indexing slider.                                        *)
(***************************************************************************)
\* positive values typed into the volume field
PositiveVolumes == {Num(100), Num(1), Rat(1, 2)}

\* positive values typed into the entry-size field
PositiveEntrySizes == {Num(2), Num(1), Rat(1, 2), Num(3)}

\* the positions of the range slider
SliderRange == 1..100

\* the wizard after a positive volume and entry size were typed
InitQuantities ==
    /\ products = CatFull
    /\ currentStep = 0
    /\ ingestedLogsGB \in PositiveVolumes
    /\ avgLogSizeKB \in PositiveEntrySizes
    /\ indexingPercentage = 15
    /\ retentionDays = 15
    /\ enableFlexStarter = FALSE
    /\ enableFlexStorage = FALSE
    /\ enableForwarding = FALSE
    /\ flexStarterEvents = Num(10)
    /\ flexStorageEvents = Num(50)
    /\ forwardingGB = Num(20)
    /\ InitDerived
    /\ emitted = <<>>
    /\ finalized = FALSE
    /\ NoParse
    /\ NoRum

NextQuantities ==
    \/ goToStep
    \/ SelectPreset
    \/ SlideIndexingPercentageTo(SliderRange)

SpecQuantities == InitQuantities /\ [][NextQuantities]_vars

(***************************************************************************)
(* Building the quote: the add-on switches and addToQuote, over a volume   *)
(* that is positive or 0 and catalogs with and without a record matched by *)
(* two categories.                                                         *)
(***************************************************************************)
\* the volume field: the default, and 0
VolumesWithZero == {Num(100), Zero}

QuoteCatalogs == {CatFull, CatShared}

InitQuote == InitWizard(QuoteCatalogs) /\ NoParse /\ NoRum

NextQuote ==
    \/ goToStep
    \/ SetIngestedLogsGBTo(VolumesWithZero)
    \/ ToggleFlexStarter
    \/ ToggleFlexStorage
    \/ ToggleForwarding
    \/ SetForwardingGB
    \/ addToQuote

SpecQuote == InitQuote /\ [][NextQuote]_vars

(***************************************************************************)
(* RUM action tracking: concurrent calls of the track functions.  A call   *)
(* runs to its first await in one step; its continuations run as separate  *)
(* steps, interleaved with those of the other calls.                       *)
(***************************************************************************)
\* the action names of the track functions the model calls
TrackedActions == {"quote_shared", "pricing_sync"}

\* a track function is called: getRum runs up to its first await, or returns
track(c) ==
    /\ pc[c] = "idle"
    /\ \E name \in TrackedActions : actionName' = [actionName EXCEPT ![c] = name]
    /\ importResult' = [importResult EXCEPT ![c] = "none"]
    /\ outcome' = [outcome EXCEPT ![c] = "none"]
    /\ IF ~browser
       THEN /\ rum' = [rum EXCEPT ![c] = None]
            /\ pc' = [pc EXCEPT ![c] = "resume"]
       ELSE IF ~IsSome(rumInstance)
       THEN /\ rum' = [rum EXCEPT ![c] = None]
            /\ pc' = [pc EXCEPT ![c] = "import"]
       ELSE /\ rum' = [rum EXCEPT ![c] = rumInstance]
            /\ pc' = [pc EXCEPT ![c] = "resume"]
    /\ UNCHANGED <<browser, rumInstance, wizardVars, parseVars>>

\* the dynamic import of a call is fulfilled: rumInstance = datadogRum;
\* return rumInstance
importResolves(c) ==
    /\ pc[c] = "import"
    /\ rumInstance' = Some(DatadogRum)
    /\ importResult' = [importResult EXCEPT ![c] = "resolved"]
    /\ rum' = [rum EXCEPT ![c] = rumInstance']
    /\ pc' = [pc EXCEPT ![c] = "resume"]
    /\ UNCHANGED <<browser, actionName, outcome, wizardVars, parseVars>>

\* mutant: the catch block clears the cached module
importRejects_ResetsInstance(c) ==
    /\ pc[c] = "import"
    /\ rumInstance' = None
    /\ importResult' = [importResult EXCEPT ![c] = "rejected"]
    /\ rum' = [rum EXCEPT ![c] = None]
    /\ pc' = [pc EXCEPT ![c] = "resume"]
    /\ UNCHANGED <<browser, actionName, outcome, wizardVars, parseVars>>

\* the dynamic import of a call is rejected: the catch block warns and
\* returns null
importRejects(c) ==
    /\ pc[c] = "import"
    /\ importResult' = [importResult EXCEPT ![c] = "rejected"]
    /\ rum' = [rum EXCEPT ![c] = None]
    /\ pc' = [pc EXCEPT ![c] = "resume"]
    /\ UNCHANGED <<browser, rumInstance, actionName, outcome, wizardVars, parseVars>>

\* the track function resumes after await getRum(): rum?.addAction(name, context)
trackResume(c) ==
    /\ pc[c] = "resume"
    /\ outcome' = [outcome EXCEPT ![c] = IF IsSome(rum[c]) THEN "sent" ELSE "skipped"]
    /\ pc' = [pc EXCEPT ![c] = "idle"]
    /\ UNCHANGED <<browser, rumInstance, actionName, importResult, rum, wizardVars, parseVars>>

\* the module in the browser or on the server
InitRum ==
    /\ InitWizard({CatFull})
    /\ NoParse
    /\ browser \in BOOLEAN
    /\ InitRumModule

NextRum ==
    \E c \in Calls :
        \/ track(c)
        \/ importResolves(c)
        \/ importRejects(c)
        \/ trackResume(c)

SpecRum == InitRum /\ [][NextRum]_vars

(***************************************************************************)
(* Properties.                                                             *)
(***************************************************************************)
\* the items of the calls of onAddToQuote made by the last step
EmittedItems ==
    UNION {{emitted[c][i] : i \in 1..Len(emitted[c])} : c \in 1..Len(emitted)}

\* the matched products, by category
MatchedProducts ==
    {ingestionProduct, indexedProduct, flexStarterProduct, flexStorageProduct,
     forwardingProduct}

NonNegative(v) == IsFinite(v) /\ v.n >= 0

IsInteger(v) == IsFinite(v) /\ v.d = 1

\* C1: every item handed to onAddToQuote carries a matched product of the
\* catalog and a quantity > 0, and an item of an add-on is there only while
\* that add-on is enabled.
C1_ItemsValid ==
    \A it \in EmittedItems :
        /\ Some(it.product) \in MatchedProducts
        /\ \E k \in 1..Len(products) : products[k] = it.product
        /\ Gt0(it.quantity)
        /\ it.product.product = LIT_FlexLogsStarter => enableFlexStarter
        /\ it.product.product = LIT_FlexLogsStorage => enableFlexStorage
        /\ it.product.product = LIT_Forwarding => enableForwarding

\* C1 witness: a quote was emitted with an enabled add-on in it, while another
\* add-on with a matched product and a positive count was disabled.
C1_Witness ==
    /\ Len(emitted) = 1
    /\ enableFlexStarter /\ IsSome(flexStarterProduct) /\ Gt0(flexStarterEvents)
    /\ \E it \in EmittedItems : it.product.product = LIT_FlexLogsStarter
    /\ ~enableFlexStorage /\ IsSome(flexStorageProduct) /\ Gt0(flexStorageEvents)

\* the continuous quantities of the categories whose matched product is prod
QuantitiesOf(prod) ==
    {q \in {ingestedLogsGB, indexedLogsInMillions, flexStarterEvents,
            flexStorageEvents, forwardingGB} :
        \/ q = ingestedLogsGB /\ ingestionProduct = Some(prod)
        \/ q = indexedLogsInMillions /\ indexedProduct = Some(prod)
        \/ q = flexStarterEvents /\ flexStarterProduct = Some(prod)
        \/ q = flexStorageEvents /\ flexStorageProduct = Some(prod)
        \/ q = forwardingGB /\ forwardingProduct = Some(prod)}

\* C2: every emitted item's quantity is an integer >= 1, the ceiling of the
\* continuous quantity of its category.
C2_QuantityIsCeiling ==
    \A it \in EmittedItems :
        /\ IsInteger(it.quantity) /\ it.quantity.n >= 1
        /\ \E q \in QuantitiesOf(it.product) : it.quantity = Ceil(q)

\* the two price parsers
PriceParsers == {"wizard", "utils"}

\* C3: a price parser returns a finite number for every text.
C3_ParserTotal == parser \in PriceParsers => IsFinite(parsed)

IsPlaceholder(t) == ~IsSome(t) \/ Len(Get(t)) = 0 \/ Get(t) = T_dash

\* the text without its thousands separators: the commas that follow a digit
\* and are followed by exactly three digits
RECURSIVE DropThousands(_, _)
DropThousands(s, prev) ==
    IF Len(s) = 0 THEN <<>>
    ELSE IF /\ s[1] = "," /\ prev \in Digits /\ Len(s) >= 4
            /\ \A i \in 2..4 : s[i] \in Digits
            /\ (Len(s) = 4 \/ s[5] \notin Digits)
         THEN DropThousands(Tail(s), s[1])
         ELSE <<s[1]>> \o DropThousands(Tail(s), s[1])

\* the first maximal run of digits with a single decimal point, as a number
FirstNumber(s) ==
    LET starts == {i \in 1..Len(s) : s[i] \in Digits}
        first  == CHOOSE i \in starts : \A j \in starts : i <= j
    IN  IF starts = {} THEN Zero ELSE ParseFloat(SubSeq(s, first, Len(s)))

\* the text holds a price: its first digit or point is a digit
HasPrice(s) ==
    \E i \in 1..Len(s) : s[i] \in Digits /\ \A j \in 1..(i - 1) : s[j] \notin DigitOrDot

\* C4: for a text that is no placeholder and holds a price, either parser
\* returns the value of the first run of digits with a single decimal point,
\* thousands separators, symbols and suffixes ignored.
C4_FirstRunValue ==
    (parser \in PriceParsers /\ ~IsPlaceholder(priceStr) /\ HasPrice(Get(priceStr)))
        => parsed = FirstNumber(DropThousands(Get(priceStr), " "))

\* result is the first record of the catalog among those at the indices
\* hits, and is absent exactly when there is none
IsFirstOf(result, hits) ==
    IF hits # {}
    THEN /\ IsSome(result)
         /\ \E i \in hits : products[i] = Get(result) /\ \A j \in 1..(i - 1) : j \notin hits
    ELSE result = None

\* the records whose name contains 'logs' and 'ingestion', in any case
IngestionHits == {i \in 1..Len(products) : IsIngestion(products[i])}

\* the records whose name contains 'indexed log events' and whose billing
\* unit contains the retention token, in any case
IndexedHits == {i \in 1..Len(products) : IsIndexed(products[i], retentionDays)}

\* the records of exactly this name
NamedHits(name) == {i \in 1..Len(products) : products[i].product = name}

\* C5: each lookup holds the first record in catalog order that satisfies its
\* predicates, and is absent exactly when no record satisfies them.
C5_FirstMatch ==
    /\ IsFirstOf(ingestionProduct, IngestionHits)
    /\ IsFirstOf(indexedProduct, IndexedHits)
    /\ IsFirstOf(flexStarterProduct, NamedHits(LIT_FlexLogsStarter))
    /\ IsFirstOf(flexStorageProduct, NamedHits(LIT_FlexLogsStorage))
    /\ IsFirstOf(forwardingProduct, NamedHits(LIT_Forwarding))

\* C5 witness: after another retention window was selected, two distinct
\* records satisfy the ingestion predicates and the first is held, while the
\* indexed and the forwarding lookups are absent.
C5_Witness ==
    /\ retentionDays = 7
    /\ Len(products) = 2
    /\ IngestionHits = {1, 2}
    /\ products[1] # products[2]
    /\ ingestionProduct = Some(products[1])
    /\ indexedProduct = None
    /\ forwardingProduct = None

\* the token of the selected retention window
RetentionToken == DecStr(retentionDays) \o LIT_day

\* C6: when no billing unit of the catalog contains the token of the selected
\* retention window, the indexed product is absent, its cost is 0 and its
\* found-flag is false; a matched indexed product has the token in its
\* billing unit.
C6_NoRetentionMatch ==
    /\ (\A i \in 1..Len(products) :
            ~Includes(ToLowerCase(products[i].billing_unit), RetentionToken))
        => (indexedProduct = None /\ indexedCost = Zero /\ ~IndexedProductFound)
    /\ IsSome(indexedProduct)
        => Includes(ToLowerCase(Get(indexedProduct).billing_unit), RetentionToken)

\* the billing quantity of an add-on
AddOnQuantity(enable, count) == IF enable THEN ToNumber(count) ELSE Zero

\* C7: every derived quantity and every category cost is a number >= 0, and no
\* item is emitted for a quantity that is not positive.
C7_QuantitiesNonNegative ==
    /\ NonNegative(totalLogsPerMonth)
    /\ NonNegative(indexedLogsCount)
    /\ NonNegative(indexedLogsInMillions)
    /\ NonNegative(AddOnQuantity(enableFlexStarter, flexStarterEvents))
    /\ NonNegative(AddOnQuantity(enableFlexStorage, flexStorageEvents))
    /\ NonNegative(AddOnQuantity(enableForwarding, forwardingGB))
    /\ NonNegative(ingestionCost)
    /\ NonNegative(indexedCost)
    /\ \A it \in EmittedItems : \E q \in QuantitiesOf(it.product) : Gt0(q)

\* what the enabled add-ons contribute: usage count times unit price
EnabledContributions ==
    Add(Add(IF enableFlexStarter THEN Mul(flexStarterEvents, flexStarterPrice) ELSE Zero,
            IF enableFlexStorage THEN Mul(flexStorageEvents, flexStoragePrice) ELSE Zero),
        IF enableForwarding THEN Mul(forwardingGB, forwardingPrice) ELSE Zero)

\* C8: a disabled add-on contributes exactly 0 to the breakdown and to the
\* monthly total, whatever its usage count and unit price; an enabled one
\* contributes its usage count times its unit price.
C8_AddOnContribution ==
    /\ ~enableFlexStarter => flexStarterCost = Zero
    /\ ~enableFlexStorage => flexStorageCost = Zero
    /\ ~enableForwarding => forwardingCost = Zero
    /\ enableFlexStarter => flexStarterCost = Mul(flexStarterEvents, flexStarterPrice)
    /\ enableFlexStorage => flexStorageCost = Mul(flexStorageEvents, flexStoragePrice)
    /\ enableForwarding => forwardingCost = Mul(forwardingGB, forwardingPrice)
    /\ additionalCost = EnabledContributions
    /\ totalMonthlyCost = Add(Add(ingestionCost, indexedCost), EnabledContributions)

\* C8 witness: a disabled add-on with a positive count and a positive price,
\* beside an enabled one that costs something.
C8_Witness ==
    /\ ~enableFlexStorage /\ Gt0(flexStorageEvents) /\ Gt0(flexStoragePrice)
    /\ enableFlexStarter /\ Gt0(flexStarterCost) /\ flexStarterEvents = Rat(5, 2)

\* the items other than those of the product named name
ItemsWithout(items, name) == SelectSeq(items, LAMBDA it : it.product.product # name)

\* the items of the product named name
ItemsOf(items, name) == SelectSeq(items, LAMBDA it : it.product.product = name)

\* a step that flips exactly the flag en of the add-on named name leaves its
\* count, its product and its price alone; the add-on then costs count * price
\* when on and 0 when off, and has its item in the quote exactly when on
\* (given a matched product and a positive count), the quantity being the
\* ceiling of the count held before the step
ToggleEffect(name, en, en2, count, count2, prod, prod2, price, price2, cost2, items, items2) ==
    /\ count2 = count /\ prod2 = prod /\ price2 = price
    /\ cost2 = (IF en2 THEN Mul(count, price) ELSE Zero)
    /\ ItemsWithout(items2, name) = ItemsWithout(items, name)
    /\ ItemsOf(items2, name) =
         (IF en2 /\ IsSome(prod) /\ Gt0(count)
          THEN <<[product |-> Get(prod), quantity |-> Ceil(count)]>>
          ELSE <<>>)

\* the inputs and derived values no add-on flag is part of
OtherThanAddOnState ==
    <<products, currentStep, ingestedLogsGB, avgLogSizeKB, indexingPercentage,
      retentionDays, totalLogsPerMonth, indexedLogsCount, indexedLogsInMillions,
      ingestionProduct, indexedProduct, ingestionPrice, indexedPrice,
      ingestionCost, indexedCost>>

FlexStarterState == <<enableFlexStarter, flexStarterEvents, flexStarterProduct,
                      flexStarterPrice, flexStarterCost>>

FlexStorageState == <<enableFlexStorage, flexStorageEvents, flexStorageProduct,
                      flexStoragePrice, flexStorageCost>>

ForwardingState == <<enableForwarding, forwardingGB, forwardingProduct,
                     forwardingPrice, forwardingCost>>

\* C9: a step that flips an add-on's flag changes nothing else of the inputs:
\* the usage count, the other add-ons and every other input keep their
\* values, so the add-on's contribution, the total and the quote items after
\* switching it back on are those of the unchanged count.
C9_ToggleOnlyFlag ==
    [][/\ enableFlexStarter' # enableFlexStarter =>
            /\ UNCHANGED <<OtherThanAddOnState, FlexStorageState, ForwardingState>>
            /\ ToggleEffect(LIT_FlexLogsStarter, enableFlexStarter, enableFlexStarter',
                            flexStarterEvents, flexStarterEvents',
                            flexStarterProduct, flexStarterProduct',
                            flexStarterPrice, flexStarterPrice', flexStarterCost',
                            BuildItems, BuildItems')
            /\ totalMonthlyCost' = Add(Add(ingestionCost, indexedCost),
                                       Add(Add(flexStarterCost', flexStorageCost), forwardingCost))
       /\ enableFlexStorage' # enableFlexStorage =>
            /\ UNCHANGED <<OtherThanAddOnState, FlexStarterState, ForwardingState>>
            /\ ToggleEffect(LIT_FlexLogsStorage, enableFlexStorage, enableFlexStorage',
                            flexStorageEvents, flexStorageEvents',
                            flexStorageProduct, flexStorageProduct',
                            flexStoragePrice, flexStoragePrice', flexStorageCost',
                            BuildItems, BuildItems')
            /\ totalMonthlyCost' = Add(Add(ingestionCost, indexedCost),
                                       Add(Add(flexStarterCost, flexStorageCost'), forwardingCost))
       /\ enableForwarding' # enableForwarding =>
            /\ UNCHANGED <<OtherThanAddOnState, FlexStarterState, FlexStorageState>>
            /\ ToggleEffect(LIT_Forwarding, enableForwarding, enableForwarding',
                            forwardingGB, forwardingGB',
                            forwardingProduct, forwardingProduct',
                            forwardingPrice, forwardingPrice', forwardingCost',
                            BuildItems, BuildItems')
            /\ totalMonthlyCost' = Add(Add(ingestionCost, indexedCost),
                                       Add(Add(flexStarterCost, flexStorageCost), forwardingCost'))
      ]_vars

\* C9 witness: an add-on was switched off after a count other than the default
\* was entered and is on again, contributing that count.
C9_Witness ==
    /\ enableFlexStarter
    /\ flexStarterEvents = Rat(5, 2)
    /\ IsSome(flexStarterProduct)
    /\ flexStarterCost = Mul(Rat(5, 2), flexStarterPrice) /\ Gt0(flexStarterCost)
    /\ ~enableForwarding /\ forwardingGB = Null /\ forwardingCost = Zero

\* quantity times unit price; a quantity of 0 costs 0 at any price
QuantityTimesPrice(quantity, price) ==
    IF ToNumber(quantity) = Zero THEN Zero ELSE Mul(quantity, price)

\* C10: the monthly total is the sum of the five category costs, the
\* annualized value is 12 times it, each category cost is quantity times unit
\* price, and a category without a matched product has unit price 0 and cost 0.
C10_CostAggregation ==
    /\ totalMonthlyCost =
         Add(Add(Add(Add(ingestionCost, indexedCost), flexStarterCost),
                 flexStorageCost), forwardingCost)
    /\ Annualized = Mul(Num(12), totalMonthlyCost)
    /\ ingestionCost = QuantityTimesPrice(ingestedLogsGB, ingestionPrice)
    /\ indexedCost = QuantityTimesPrice(indexedLogsInMillions, indexedPrice)
    /\ flexStarterCost = QuantityTimesPrice(AddOnQuantity(enableFlexStarter, flexStarterEvents),
                                            flexStarterPrice)
    /\ flexStorageCost = QuantityTimesPrice(AddOnQuantity(enableFlexStorage, flexStorageEvents),
                                            flexStoragePrice)
    /\ forwardingCost = QuantityTimesPrice(AddOnQuantity(enableForwarding, forwardingGB),
                                           forwardingPrice)
    /\ ~IsSome(ingestionProduct) => ingestionPrice = Zero /\ ingestionCost = Zero
    /\ ~IsSome(indexedProduct) => indexedPrice = Zero /\ indexedCost = Zero
    /\ ~IsSome(flexStarterProduct) => flexStarterPrice = Zero /\ flexStarterCost = Zero
    /\ ~IsSome(flexStorageProduct) => flexStoragePrice = Zero /\ flexStorageCost = Zero
    /\ ~IsSome(forwardingProduct) => forwardingPrice = Zero /\ forwardingCost = Zero

\* C11: in every state between two events, each derived quantity, matched
\* product, unit price, category cost, the total, the found-flags and the
\* items of an emitted quote equal the pipeline applied to the current
\* inputs; nothing is left over from an older input.  (Each line reads only
\* inputs and values the lines before it have shown to be current.)
C11_NoStaleState ==
    /\ totalLogsPerMonth = TotalLogsPerMonth(ingestedLogsGB, avgLogSizeKB)
    /\ indexedLogsCount = IndexedLogsCount(totalLogsPerMonth, indexingPercentage)
    /\ indexedLogsInMillions = IndexedLogsInMillions(indexedLogsCount)
    /\ ingestionProduct = FindIngestionProduct(products)
    /\ indexedProduct = FindIndexedProduct(products, retentionDays)
    /\ flexStarterProduct = FindFlexStarterProduct(products)
    /\ flexStorageProduct = FindFlexStorageProduct(products)
    /\ forwardingProduct = FindForwardingProduct(products)
    /\ IngestionProductFound = (IngestionHits # {})
    /\ IndexedProductFound = (IndexedHits # {})
    /\ ingestionPrice = parsePrice(BilledAnnually(ingestionProduct))
    /\ indexedPrice = parsePrice(BilledAnnually(indexedProduct))
    /\ flexStarterPrice = parsePrice(BilledAnnually(flexStarterProduct))
    /\ flexStoragePrice = parsePrice(BilledAnnually(flexStorageProduct))
    /\ forwardingPrice = parsePrice(BilledAnnually(forwardingProduct))
    /\ ingestionCost = Mul(ingestedLogsGB, ingestionPrice)
    /\ indexedCost = Mul(indexedLogsInMillions, indexedPrice)
    /\ flexStarterCost = (IF enableFlexStarter THEN Mul(flexStarterEvents, flexStarterPrice) ELSE Zero)
    /\ flexStorageCost = (IF enableFlexStorage THEN Mul(flexStorageEvents, flexStoragePrice) ELSE Zero)
    /\ forwardingCost = (IF enableForwarding THEN Mul(forwardingGB, forwardingPrice) ELSE Zero)
    /\ additionalCost = Add(Add(flexStarterCost, flexStorageCost), forwardingCost)
    /\ totalMonthlyCost = Add(Add(ingestionCost, indexedCost), additionalCost)
    /\ \A c \in 1..Len(emitted) : emitted[c] = BuildItems

\* C11 witness: the catalog was replaced, another retention window and another
\* indexing percentage were selected, a volume was typed and an add-on was
\* switched on with its count cleared; a quote was then emitted.
C11_Witness ==
    /\ products = CatOdd
    /\ retentionDays = 30
    /\ indexingPercentage = 5
    /\ ingestedLogsGB # Num(100)
    /\ enableForwarding /\ forwardingGB = Null
    /\ enableFlexStarter
    /\ IsSome(indexedProduct) /\ Gt0(indexedPrice)
    /\ Len(emitted) = 1

\* C12 (as claimed): whenever addToQuote has run, onAddToQuote was invoked
\* exactly once, with the items built from the current inputs, and no other
\* step invokes it.
C12_ExactlyOnce ==
    /\ finalized => (Len(emitted) = 1 /\ emitted[1] = BuildItems)
    /\ ~finalized => emitted = <<>>

\* C12 (amended): whenever addToQuote has run, onAddToQuote was invoked at
\* most once: once with the items built from the current inputs when there is
\* at least one item, not at all when there is none; no other step invokes it.
C12_OnceIfAnyItem ==
    /\ finalized /\ Len(BuildItems) > 0 => emitted = <<BuildItems>>
    /\ finalized /\ Len(BuildItems) = 0 => emitted = <<>>
    /\ ~finalized => emitted = <<>>

\* C12 witness: addToQuote ran with the mandatory products matched and nothing
\* to put in the quote (a volume of 0, an add-on enabled with its count
\* cleared), and the callback was not invoked.
C12_Witness ==
    /\ finalized
    /\ IsSome(ingestionProduct) /\ IsSome(indexedProduct)
    /\ ingestedLogsGB = Zero
    /\ enableForwarding /\ forwardingGB = Null /\ IsSome(forwardingProduct)
    /\ emitted = <<>>

\* C13: the warning is shown exactly when no record of the catalog satisfies
\* the ingestion predicates or none satisfies the indexed-events predicates
\* for the selected window; the two found-flags say exactly that, whatever
\* the add-on flags, the add-on lookups and the parsed prices are.
C13_WarningOnlyMandatory ==
    /\ ShowWarning <=> (IngestionHits = {} \/ IndexedHits = {})
    /\ IngestionProductFound <=> IngestionHits # {}
    /\ IndexedProductFound <=> IndexedHits # {}

\* C13 witness: both mandatory products are matched and the warning is off
\* while one add-on is enabled without a matched product, another is
\* disabled, the ingestion price is missing (0) and an add-on price is
\* unparsable.
C13_Witness ==
    /\ ~ShowWarning
    /\ IngestionProductFound /\ IndexedProductFound
    /\ enableFlexStorage /\ flexStorageProduct = None
    /\ ~enableForwarding /\ IsSome(forwardingProduct)
    /\ BilledAnnually(ingestionProduct) = None /\ ingestionPrice = Zero
    /\ IsSome(flexStarterProduct) /\ ~IsFinite(flexStarterPrice)

\* a positive finite number
IsPositive(v) == IsFinite(v) /\ v.n > 0

\* C14: with a positive volume and entry size and an indexing percentage in
\* 0..100, totalEntries = GB * 1024 * 1024 / KB, indexedEntries =
\* totalEntries * percent / 100 and indexedInMillions = indexedEntries /
\* 1,000,000 as exact values, nothing rounded in between; 100 GB at 2 KB and
\* 15 percent give 52,428,800, 7,864,320 and 7.86432.  (The quotients are
\* written total / 100 * percent and entries / 1000 / 1000, equal as exact
\* values to the claimed ones and within the range of 32-bit integers.)
C14_DerivedQuantities ==
    (IsPositive(ingestedLogsGB) /\ IsPositive(avgLogSizeKB) /\ indexingPercentage \in 0..100)
    => /\ totalLogsPerMonth = Div(Mul(ingestedLogsGB, Num(1024 * 1024)), avgLogSizeKB)
       /\ indexedLogsCount = Mul(Div(totalLogsPerMonth, Num(100)), Num(indexingPercentage))
       /\ indexedLogsInMillions = Div(Div(indexedLogsCount, Num(1000)), Num(1000))
       /\ (ingestedLogsGB = Num(100) /\ avgLogSizeKB = Num(2) /\ indexingPercentage = 15)
            => /\ totalLogsPerMonth = Num(52428800)
               /\ indexedLogsCount = Num(7864320)
               /\ indexedLogsInMillions = Rat(786432, 100000)

\* C14 witness: 100 GB at 2 KB after the slider was moved to 37 percent:
\* 19,398,656 indexed entries, 19.398656 million.
C14_Witness ==
    /\ ingestedLogsGB = Num(100) /\ avgLogSizeKB = Num(2) /\ indexingPercentage = 37
    /\ totalLogsPerMonth = Num(52428800)
    /\ indexedLogsCount = Num(19398656)
    /\ indexedLogsInMillions = Rat(19398656, 1000000)

\* the categories in their precedence: ingestion, indexed events, Flex Logs
\* Starter, Flex Logs Storage, Forwarding
Categories == 1..5

CategoryProduct ==
    <<ingestionProduct, indexedProduct, flexStarterProduct, flexStorageProduct,
      forwardingProduct>>

CategoryQuantity ==
    <<ingestedLogsGB, indexedLogsInMillions, flexStarterEvents, flexStorageEvents,
      forwardingGB>>

CategoryEnabled == <<TRUE, TRUE, enableFlexStarter, enableFlexStorage, enableForwarding>>

\* the categories that have an item: enabled, matched, of positive quantity
CategoriesWithItem ==
    {c \in Categories :
        CategoryEnabled[c] /\ IsSome(CategoryProduct[c]) /\ Gt0(CategoryQuantity[c])}

\* items is made of one item per category of cats, by ascending precedence
InPrecedence(items, cats) ==
    /\ Len(items) = Cardinality(cats)
    /\ \A c \in cats :
         LET k == Cardinality({b \in cats : b <= c})
         IN  /\ items[k].product = Get(CategoryProduct[c])
             /\ items[k].quantity = Ceil(CategoryQuantity[c])

\* C15: the emitted items are one per category that has an item, in the
\* precedence ingestion, indexed events, Flex Logs Starter, Flex Logs
\* Storage, Forwarding: no category twice, a left-out category moves no other,
\* and two categories matched to the same record both keep their item.
C15_ItemOrder ==
    \A c \in 1..Len(emitted) : InPrecedence(emitted[c], CategoriesWithItem)

\* C15 witness: a quote was emitted in which the ingestion and the indexed
\* item carry the same catalog record, Flex Logs Starter is left out and
\* Flex Logs Storage and Forwarding follow.
C15_Witness ==
    /\ Len(emitted) = 1
    /\ ingestionProduct = indexedProduct /\ IsSome(ingestionProduct)
    /\ ~enableFlexStarter /\ IsSome(flexStarterProduct)
    /\ Len(emitted[1]) = 4
    /\ emitted[1][1].product = emitted[1][2].product
    /\ emitted[1][3].product.product = LIT_FlexLogsStorage
    /\ emitted[1][4].product.product = LIT_Forwarding

\* the digits and decimal points of a text, in their order
RECURSIVE DigitsAndPoints(_)
DigitsAndPoints(s) ==
    IF Len(s) = 0 THEN <<>>
    ELSE (IF s[1] \in Digits \/ s[1] = "." THEN <<s[1]>> ELSE <<>>) \o DigitsAndPoints(Tail(s))

\* the number a run of digits with at most one decimal point stands for
\* (0 when it has no digit)
DecimalValue(r) ==
    LET points == {i \in 1..Len(r) : r[i] = "."}
        p      == IF points = {} THEN Len(r) + 1 ELSE CHOOSE i \in points : TRUE
        whole  == SubSeq(r, 1, p - 1)
        frac   == SubSeq(r, p + 1, Len(r))
    IN  Rat(DigitsVal(whole) * Pow10(Len(frac)) + DigitsVal(frac), Pow10(Len(frac)))

HasMarker(t) == IsSome(t) /\ \E i \in 1..Len(Get(t)) : Get(t)[i] = "%"

\* C16: parsePercentage returns 0 for a text that is absent, empty or without
\* '%', whatever its digits; for a text with '%' whose digits hold at most one
\* decimal point it returns the number these digits and the point form
\* ("15%" gives 15, "15" gives 0); it never returns not-a-number.
C16_PercentageNeedsMarker ==
    parser = "percentage"
    => /\ IsFinite(parsed)
       /\ ~HasMarker(priceStr) => parsed = Zero
       /\ (HasMarker(priceStr)
           /\ Cardinality({i \in 1..Len(Get(priceStr)) : Get(priceStr)[i] = "."}) <= 1)
          => parsed = DecimalValue(DigitsAndPoints(Get(priceStr)))
       /\ priceStr = Some(T_15pct) => parsed = Num(15)
       /\ priceStr = Some(T_15) => parsed = Zero

\* C16 witness: parsePercentage was called on "15%" and returned 15.
C16_Witness ==
    /\ parser = "percentage"
    /\ priceStr = Some(T_15pct)
    /\ parsed = Num(15)

\* what holds of the tracking module in every state
RumGuard ==
    \A c \in Calls :
        \* an action was sent only in the browser with the module loaded
        /\ outcome[c] = "sent" => (browser /\ IsSome(rumInstance))
        \* a call about to send holds the loaded module
        /\ (pc[c] = "resume" /\ IsSome(rum[c])) => (browser /\ rum[c] = rumInstance)
        \* outside the browser nothing is loaded and nothing is sent
        /\ ~browser => (rumInstance = None /\ pc[c] # "import" /\ outcome[c] # "sent")
        \* a call whose load failed resolves to null and sends nothing
        /\ importResult[c] = "rejected" => (rum[c] = None /\ outcome[c] # "sent")
        \* a call ends by sending or by skipping, never by an exception
        /\ outcome[c] \in {"none", "sent", "skipped"}

\* what holds of every step of the tracking module
RumStep ==
    \* once set, rumInstance is never reset or replaced
    /\ IsSome(rumInstance) => rumInstance' = rumInstance
    /\ \A c \in Calls :
        \* addAction is called only in the browser, after the module was loaded
        /\ (outcome[c] # "sent" /\ outcome'[c] = "sent")
             => (browser /\ IsSome(rumInstance) /\ rum[c] = rumInstance)
        \* a failed load leaves rumInstance as it was: null stays null
        /\ (importResult[c] # "rejected" /\ importResult'[c] = "rejected")
             => rumInstance' = rumInstance
        \* with rumInstance null, a call in the browser attempts the load
        /\ (pc[c] = "idle" /\ pc'[c] # "idle" /\ browser /\ rumInstance = None)
             => pc'[c] = "import"

\* C17: across every interleaving of concurrent track calls, an action is sent
\* only in the browser and only after the RUM module was loaded into
\* rumInstance; outside the browser, or when the load fails, the call ends
\* without sending and without an exception, rumInstance stays null so that a
\* later call attempts the load again; once set, rumInstance is never reset or
\* replaced.
C17_RumOnlyWhenLoaded == [](RumGuard) /\ [][RumStep]_vars

\* C17 witness: in the browser, with the calls interleaved: one call loaded
\* the module and sent its action, while another call, whose own load failed,
\* is about to resume with null although the module is loaded by now.
C17_Witness ==
    /\ browser
    /\ rumInstance = Some(DatadogRum)
    /\ \E c1, c2 \in Calls :
         /\ c1 # c2
         /\ importResult[c2] = "resolved" /\ outcome[c2] = "sent"
         /\ actionName[c2] = "pricing_sync"
         /\ pc[c1] = "resume" /\ importResult[c1] = "rejected" /\ rum[c1] = None

====
